---- MODULE Spec2Model ----
(***************************************************************************)
(* A model of axpert.py: the Axpert inverter protocol codec                *)
(* (AxpertProtocol, typer, clean_val), the synchronous session             *)
(* (BaseAxpertInverter) and the background-refresh session                 *)
(* (AxpertInverter).                                                       *)
(*                                                                         *)
(* Python values are records [t |-> type name, v |-> payload]; byte and    *)
(* text strings are sequences of one-character strings.  The result of a   *)
(* call is [exc |-> "none", val |-> value] or [exc |-> exception name].    *)
(***************************************************************************)
EXTENDS Integers, Sequences, FiniteSets, TLC

\* ------------------------------------------------------------------------
\* Python values
\* ------------------------------------------------------------------------
PyNone == [t |-> "None", v |-> 0]
PyInt(n) == [t |-> "int", v |-> n]
PyBool(b) == [t |-> "bool", v |-> b]
PyStr(s) == [t |-> "str", v |-> s]
PyBytes(s) == [t |-> "bytes", v |-> s]
PyList(s) == [t |-> "list", v |-> s]
PyDict(m) == [t |-> "dict", v |-> m]
\* a float with the decimal value m / 10^d
PyFloat(m, d) == [t |-> "float", v |-> [m |-> m, d |-> d]]

Ret(x) == [exc |-> "none", val |-> x]
Raise(e) == [exc |-> e, val |-> PyNone]

EmptyDict == [k \in {} |-> PyNone]

\* Python truthiness, as tested by `not val`, `if not raw`, `if res`.
Truthy(x) ==
    CASE x.t = "None" -> FALSE
      [] x.t = "int" -> x.v # 0
      [] x.t = "bool" -> x.v
      [] x.t = "float" -> x.v.m # 0
      [] x.t = "dict" -> DOMAIN x.v # {}
      [] x.t = "json" -> TRUE
      [] OTHER -> x.v # <<>>

Digits == {"0", "1", "2", "3", "4", "5", "6", "7", "8", "9"}
DigitVal ==
    ("0" :> 0) @@ ("1" :> 1) @@ ("2" :> 2) @@ ("3" :> 3) @@ ("4" :> 4) @@
    ("5" :> 5) @@ ("6" :> 6) @@ ("7" :> 7) @@ ("8" :> 8) @@ ("9" :> 9)
DigitChar == <<"0", "1", "2", "3", "4", "5", "6", "7", "8", "9">>

RECURSIVE Pow10(_)
Pow10(n) == IF n = 0 THEN 1 ELSE 10 * Pow10(n - 1)

\* The characters of s that are not c: s.replace(c, '').
RECURSIVE Without(_, _)
Without(s, c) ==
    IF s = <<>> THEN <<>>
    ELSE IF Head(s) = c THEN Without(Tail(s), c)
    ELSE <<Head(s)>> \o Without(Tail(s), c)

\* The value of a digit string in the given base.
RECURSIVE BaseVal(_, _)
BaseVal(s, base) ==
    IF s = <<>> THEN 0
    ELSE BaseVal(SubSeq(s, 1, Len(s) - 1), base) * base + DigitVal[s[Len(s)]]

\* '%d' % n for n >= 0.
RECURSIVE IntToChars(_)
IntToChars(n) ==
    IF n < 10 THEN <<DigitChar[n + 1]>>
    ELSE IntToChars(n \div 10) \o <<DigitChar[(n % 10) + 1]>>

\* int(x) for the values the codec meets: a whole number of decimal digits
\* parses, any other text is a ValueError, None is a TypeError.
PyIntOf(x) ==
    CASE x.t = "int" -> Ret(x)
      [] x.t \in {"str", "bytes"} ->
            IF x.v # <<>> /\ \A i \in 1..Len(x.v) : x.v[i] \in Digits
            THEN Ret(PyInt(BaseVal(x.v, 10)))
            ELSE Raise("ValueError")
      [] OTHER -> Raise("TypeError")

\* int(s, 2): the text is binary digits only.
PyIntBase2(s) ==
    IF s # <<>> /\ \A i \in 1..Len(s) : s[i] \in {"0", "1"}
    THEN Ret(PyInt(BaseVal(s, 2)))
    ELSE Raise("ValueError")

\* float(x): digits with at most one decimal point and at least one digit.
PyFloatOf(x) ==
    CASE x.t = "int" -> Ret(PyFloat(x.v, 0))
      [] x.t \in {"str", "bytes"} ->
            LET s == x.v
                dots == {i \in 1..Len(s) : s[i] = "."}
                digs == Without(s, ".")
            IN  IF /\ Cardinality(dots) <= 1
                   /\ digs # <<>>
                   /\ \A i \in 1..Len(digs) : digs[i] \in Digits
                THEN Ret(PyFloat(BaseVal(digs, 10),
                                 IF dots = {} THEN 0
                                 ELSE Len(s) - (CHOOSE i \in dots : TRUE)))
                ELSE Raise("ValueError")
      [] OTHER -> Raise("TypeError")

\* str(x): a bytes value renders as its repr, b'...'.
PyStrOf(x) ==
    CASE x.t = "str" -> x
      [] x.t = "bytes" -> PyStr(<<"b", "'">> \o x.v \o <<"'">>)
      [] x.t = "int" -> PyStr(IntToChars(x.v))
      [] OTHER -> PyStr(<<"N", "o", "n", "e">>)

\* '%.2f' % f: the value in hundredths, ties to even, rendered with two
\* decimals.
Fmt2f(f) ==
    LET m == f.v.m
        d == f.v.d
        q == Pow10(IF d > 2 THEN d - 2 ELSE 0)
        lo == m \div q
        r == m % q
        h == IF d <= 2 THEN m * Pow10(2 - d)
             ELSE IF 2 * r > q \/ (2 * r = q /\ lo % 2 = 1) THEN lo + 1 ELSE lo
    IN  IntToChars(h \div 100) \o <<".">>
            \o <<DigitChar[((h \div 10) % 10) + 1], DigitChar[(h % 10) + 1]>>

\* ------------------------------------------------------------------------
\* clean_val, typer
\* ------------------------------------------------------------------------
NA == <<"N", "A">>

clean_val(val) ==
    IF ~Truthy(val) \/ (val.t = "str" /\ val.v = NA) THEN PyInt(0) ELSE val

\* The conversion typer(frmt) selects: the first of 's', 'f', 'd' that
\* occurs in the format.
type_fnx(frmt) ==
    LET has(c) == \E i \in 1..Len(frmt) : frmt[i] = c
    IN  IF has("s") THEN "str"
        ELSE IF has("f") THEN "float"
        ELSE IF has("d") THEN "int"
        ELSE "none"

ApplyType(fnx, x) ==
    CASE fnx = "str" -> Ret(PyStrOf(x))
      [] fnx = "float" -> PyFloatOf(x)
      [] OTHER -> PyIntOf(x)

\* frmt % value, for the three formats in use.
FormatWith(fnx, x) ==
    CASE fnx = "str" -> x.v
      [] fnx = "float" -> Fmt2f(x)
      [] OTHER -> IntToChars(x.v)

\* typer(frmt)(txt) == type_fnx(frmt % type_fnx(clean_val(txt)))
typer(frmt, txt) ==
    LET fnx == type_fnx(frmt)
        first == ApplyType(fnx, clean_val(txt))
    IN  IF fnx = "none" THEN Raise("TypeError")
        ELSE IF first.exc # "none" THEN first
        ELSE ApplyType(fnx, PyStr(FormatWith(fnx, first.val)))

FmtFloat == <<"%", ".", "2", "f">>
FmtInt == <<"%", "d">>
FmtStr == <<"%", "s">>

to_float(txt) == typer(FmtFloat, txt)
to_int(txt) == typer(FmtInt, txt)
to_str(txt) == typer(FmtStr, txt)

\* ------------------------------------------------------------------------
\* AxpertProtocol
\* ------------------------------------------------------------------------
SOLAR_CHARGING == "solar_charging"
AC_CHARGING == "ac_charging"

STATUS_STRUCTURE == <<
    <<"grid_volt", FmtFloat>>, <<"grid_freq", FmtFloat>>,
    <<"ac_volt", FmtFloat>>, <<"ac_freq", FmtFloat>>,
    <<"ac_va", FmtInt>>, <<"ac_watt", FmtInt>>,
    <<"load_percent", FmtInt>>, <<"bus_volt", FmtInt>>,
    <<"batt_volt", FmtFloat>>, <<"batt_charge_amps", FmtInt>>,
    <<"batt_capacity", FmtInt>>, <<"temp", FmtInt>>,
    <<"pv_amps", FmtInt>>, <<"pv_volts", FmtFloat>>,
    <<"batt_volt_scc", FmtFloat>>, <<"batt_discharge_amps", FmtInt>>,
    <<"raw_status", FmtStr>>,
    <<"mask_b", FmtStr>>, <<"mask_c", FmtStr>>,
    <<"pv_watts", FmtInt>>, <<"mask_d", FmtStr>> >>

\* a & b on naturals
RECURSIVE BitAnd(_, _)
BitAnd(a, b) ==
    IF a = 0 \/ b = 0 THEN 0
    ELSE (a % 2) * (b % 2) + 2 * BitAnd(a \div 2, b \div 2)

\* charge_sources with the two masks exchanged
charge_sources_Swapped ==
    <<[mask |-> 6, source |-> AC_CHARGING], [mask |-> 5, source |-> SOLAR_CHARGING]>>

\* charge_sources, in the order the dict literal lists them
charge_sources ==
    <<[mask |-> 5, source |-> AC_CHARGING], [mask |-> 6, source |-> SOLAR_CHARGING]>>

\* FlagsOf with a charge source listed when any bit of its mask is set
FlagsOf_AnyBit(data) ==
    LET hit == SelectSeq(charge_sources, LAMBDA e : BitAnd(e.mask, data) # 0)
    IN  [charge_source |-> PyList([i \in 1..Len(hit) |-> hit[i].source]),
         batt_volt_to_steady |-> PyBool(BitAnd(8, data) # 0),
         load_status |-> PyBool(BitAnd(16, data) # 0),
         ssc_firmware_updated |-> PyBool(BitAnd(32, data) # 0),
         configuration_changed |-> PyBool(BitAnd(64, data) # 0),
         sbu_priority_version |-> PyBool(BitAnd(128, data) # 0)]

FlagsOf(data) ==
    LET hit == SelectSeq(charge_sources, LAMBDA e : BitAnd(e.mask, data) = e.mask)
    IN  [charge_source |-> PyList([i \in 1..Len(hit) |-> hit[i].source]),
         batt_volt_to_steady |-> PyBool(BitAnd(8, data) # 0),
         load_status |-> PyBool(BitAnd(16, data) # 0),
         ssc_firmware_updated |-> PyBool(BitAnd(32, data) # 0),
         configuration_changed |-> PyBool(BitAnd(64, data) # 0),
         sbu_priority_version |-> PyBool(BitAnd(128, data) # 0)]

\* parse_device_status with the length test off by one
parse_device_status_Len7(raw_status) ==
    IF ~Truthy(raw_status) \/ raw_status.t # "str" \/ Len(raw_status.v) < 7
    THEN Ret(PyDict(EmptyDict))
    ELSE LET data == PyIntBase2(Without(Without(raw_status.v, "b"), "'"))
         IN  IF data.exc # "none" THEN data
             ELSE Ret(PyDict(FlagsOf(data.val.v)))

parse_device_status(raw_status) ==
    IF ~Truthy(raw_status) \/ raw_status.t # "str" \/ Len(raw_status.v) < 8
    THEN Ret(PyDict(EmptyDict))
    ELSE LET data == PyIntBase2(Without(Without(raw_status.v, "b"), "'"))
         IN  IF data.exc # "none" THEN data
             ELSE Ret(PyDict(FlagsOf(data.val.v)))

\* raw[1:-5]
Slice1m5(s) == IF Len(s) - 5 < 2 THEN <<>> ELSE SubSeq(s, 2, Len(s) - 5)

\* s.split(sep) with a one-byte separator: empty fields are kept.
RECURSIVE Split(_, _)
Split(s, sep) ==
    LET at == {i \in 1..Len(s) : s[i] = sep}
    IN  IF at = {} THEN <<s>>
        ELSE LET i == CHOOSE k \in at : \A j \in at : k <= j
             IN  <<SubSeq(s, 1, i - 1)>> \o Split(SubSeq(s, i + 1, Len(s)), sep)

DefaultRawStatus == PyStr(<<"0", "0", "0", "0", "0", "0", "0", "0">>)

\* json_dumps(struct): the text encoding of the mapping, never empty.
json_dumps(struct) == [t |-> "json", v |-> struct]

\* ZipLen losing the last pair
ZipLen_DropLast(ntokens) ==
    IF ntokens < Len(STATUS_STRUCTURE) THEN ntokens - 1
    ELSE Len(STATUS_STRUCTURE) - 1

\* zip(self.STATUS_STRUCTURE, raw_tokens) pairs as many as the shorter holds
ZipLen(ntokens) ==
    IF ntokens < Len(STATUS_STRUCTURE) THEN ntokens ELSE Len(STATUS_STRUCTURE)

\* status_json_formatter from the slicing on: tokens, typed fields, flags
decode_tokens(raw, serialize) ==
    IF raw.t # "bytes" THEN Raise("TypeError")
    ELSE
    LET raw_tokens == Split(Slice1m5(raw.v), " ")
        n == ZipLen(Len(raw_tokens))
        item(i) == typer(STATUS_STRUCTURE[i][2], PyBytes(raw_tokens[i]))
        bad == {i \in 1..n : item(i).exc # "none"}
        data == [label \in {STATUS_STRUCTURE[i][1] : i \in 1..n} |->
                    item(CHOOSE i \in 1..n : STATUS_STRUCTURE[i][1] = label).val]
        flags == parse_device_status(
                    IF "raw_status" \in DOMAIN data THEN data["raw_status"]
                    ELSE DefaultRawStatus)
    IN  IF bad # {} THEN item(CHOOSE i \in bad : \A j \in bad : i <= j)
        ELSE IF flags.exc # "none" THEN flags
        ELSE LET struct == flags.val.v @@ data
             IN  Ret(IF serialize THEN json_dumps(struct) ELSE PyDict(struct))

\* status_json_formatter rejecting an input without the frame marker
status_json_formatter_Framed(raw, serialize) ==
    IF ~Truthy(raw) \/ (raw.t = "bytes" /\ raw.v[1] # "(") THEN Ret(PyNone)
    ELSE decode_tokens(raw, serialize)

status_json_formatter(raw, serialize) ==
    IF ~Truthy(raw) THEN Ret(PyNone) ELSE decode_tokens(raw, serialize)

\* ------------------------------------------------------------------------
\* The device channel (os.open / os.close / os.write / os.read)
\* ------------------------------------------------------------------------
\* __init__ sets no hid attribute: reading self.hid before the first
\* successful os.open is an AttributeError.
HidUnset == -1
\* descriptors 0..2 are the standard streams
FirstFd == 3
\* os.read(self.hid, 8)
ChunkSize == 8
MAX_RETRIES == 10

CR == "\r"

\* os.open returns the lowest descriptor that is free.
NewFd(fds) ==
    CHOOSE n \in FirstFd..(FirstFd + Cardinality(fds)) :
        n \notin fds /\ \A k \in FirstFd..(n - 1) : k \in fds

\* _conn and _reset_port, on s = [hid, fds, opened, ret, exc].  opens holds
\* the outcomes of the next calls of os.open (TRUE: opened), after which
\* os.open keeps failing.  opened counts the successful opens (each one
\* starts a _read_stats thread in AxpertInverter._conn).  ret is what _conn
\* returns: the descriptor, or HidUnset for None.
RECURSIVE conn(_, _), reset_port(_, _)
conn(s, opens) ==
    IF opens # <<>> /\ Head(opens)
    THEN LET fd == NewFd(s.fds)
         IN  [s EXCEPT !.hid = fd, !.fds = s.fds \cup {fd}, !.ret = fd,
                       !.opened = s.opened + 1]
    ELSE [reset_port(s, IF opens = <<>> THEN <<>> ELSE Tail(opens))
            EXCEPT !.ret = HidUnset]

reset_port(s, opens) ==
    IF s.hid = HidUnset THEN [s EXCEPT !.exc = "AttributeError"]
    ELSE IF s.hid >= 0
    THEN IF s.hid \notin s.fds THEN [s EXCEPT !.exc = "OSError"]
         ELSE conn([s EXCEPT !.fds = s.fds \ {s.hid}], opens)
    ELSE conn(s, opens)

\* The receive loop: chunks of at most 8 bytes are appended until a chunk is
\* empty or holds the terminator; that chunk is not appended.
RECURSIVE read_loop(_, _)
read_loop(stream, response) ==
    LET n == IF Len(stream) < ChunkSize THEN Len(stream) ELSE ChunkSize
        chunk == SubSeq(stream, 1, n)
    IN  IF chunk = <<>> \/ \E i \in 1..n : chunk[i] = CR THEN response
        ELSE read_loop(SubSeq(stream, n + 1, Len(stream)), response \o chunk)

\* One request cycle after the read loop: the value get_stats and
\* _read_stats test with `if res:` / `if stats:`.
decode_cycle(rawMode, response) ==
    IF rawMode THEN Ret(PyBytes(response))
    ELSE status_json_formatter(PyBytes(response), TRUE)

\* What the device sends in answer to one request.
StreamSilent == <<>>
StreamFull ==
    <<"(", "0", "0", "1", ".", "5", " ", "5", "0", ".", "0", " ", "1", " ", "1", " ", "1", "0", " ", "1", "0", " ", "5", " ", "1", " ", "1", " ", "1", " ", "1", " ", "1", " ", "1", " ", "1", " ", "1", " ", "1", " ", "0", "0", "0", "0", "0", "1", "1", "1", " ", "0", " ", "0", " ", "1", "5", " ", "0", "x", "x", "x", "c", "c">>
        \o <<CR>>
StreamShort ==
    <<"(", "1", ".", "5", " ", "5", "0", " ", "1", " ", "2", "x", "x", "x", "c", "c">>
        \o <<CR>>
StreamNA ==
    <<"(", "1", ".", "5", " ", "N", "A", " ", "1", " ", "2", "x", "x", "x", "c", "c">>
        \o <<CR>>
StreamOf ==
    [silent |-> StreamSilent, full |-> StreamFull, short |-> StreamShort,
     na |-> StreamNA]
Streams == DOMAIN StreamOf

\* ------------------------------------------------------------------------
\* _stats_req: the request, as byte values
\* ------------------------------------------------------------------------
\* a ^ b on naturals
RECURSIVE BitXor(_, _)
BitXor(a, b) ==
    IF a = 0 THEN b
    ELSE IF b = 0 THEN a
    ELSE ((a + b) % 2) + 2 * BitXor(a \div 2, b \div 2)

\* 'QPIGS' encoded: Q P I G S
encoded_cmd == <<81, 80, 73, 71, 83>>
\* b'\r'
CRByte == 13
\* the generator x^16 + x^12 + x^5 + 1 without its top bit
XmodemPoly == 4129
Word16 == 65536

\* crc16xmodem: the register starts at 0; each byte is xored into its high
\* half and the register is shifted left eight times, the generator being
\* xored in whenever a one is shifted out.
RECURSIVE crc_shift(_, _)
crc_shift(crc, n) ==
    IF n = 0 THEN crc
    ELSE crc_shift(IF crc >= Word16 \div 2
                   THEN BitXor((crc * 2) % Word16, XmodemPoly)
                   ELSE (crc * 2) % Word16,
                   n - 1)
RECURSIVE crc16xmodem_from(_, _)
crc16xmodem_from(data, crc) ==
    IF data = <<>> THEN crc
    ELSE crc16xmodem_from(Tail(data), crc_shift(BitXor(crc, Head(data) * 256), 8))
crc16xmodem(data) == crc16xmodem_from(data, 0)

\* pack with the low byte first
pack_H_LittleEndian(n) == <<n % 256, n \div 256>>

\* pack('>H', n): two bytes, the high one first
pack_H(n) == <<n \div 256, n % 256>>

stats_req == encoded_cmd \o pack_H(crc16xmodem(encoded_cmd)) \o <<CRByte>>

\* ------------------------------------------------------------------------
\* Bounds of the model
\* ------------------------------------------------------------------------
\* outcomes of os.open drawn per call of _conn / _reset_port
MaxOpens == 2
\* descriptors open at once
MaxFds == 2
\* _read_stats threads started
MaxThreads == 2

\* ------------------------------------------------------------------------
\* State
\* ------------------------------------------------------------------------
VARIABLES
    cls,        \* "base": BaseAxpertInverter, "async": AxpertInverter
    raw,        \* self.raw
    hid,        \* self.hid, HidUnset before the first successful open
    fds,        \* the descriptors open in the process
    stop,       \* self.stop
    stats,      \* self.stats
    statsSrc,   \* history: the response self.stats was decoded from
    bg,         \* the _read_stats threads: how many are at each place
    pc,         \* where the caller is
    tries,      \* __enter__: _conn calls made
    retry,      \* get_stats: the loop variable
    polls,      \* get_stats(block=True): checks of the cache made
    call,       \* history: the caller's current or last call
    result,     \* what the last finished call returned or raised
    resultSrc,  \* history: the response the result was decoded from
    writes,     \* history: os.write calls of the current get_stats
    resets,     \* history: the values of retry at which it called _reset_port
    ioFailed,   \* history: every attempt of this get_stats failed in os.write/os.read
    allEmpty,   \* history: every attempt of this get_stats received an empty response
    openFailed, \* history: every os.open of this __enter__ failed
    cin,        \* codec: the input drawn
    cout        \* codec: the result of applying the function to it

svars == <<cls, raw, hid, fds, stop, stats, statsSrc, bg, pc, tries, retry,
           polls, call, result, resultSrc, writes, resets, ioFailed, allEmpty, openFailed>>
cvars == <<cin, cout>>
vars == <<svars, cvars>>

Self == [t |-> "self", v |-> 0]
\* threads are alike: bg counts them by place
NoThreads == [top |-> 0, write |-> 0, read |-> 0, done |-> 0]
Threads(b) == b.top + b.write + b.read + b.done
Move(b, from, to) == [[b EXCEPT ![from] = @ - 1] EXCEPT ![to] = @ + 1]
NoCall == [op |-> "none", block |-> FALSE, done |-> TRUE, empty |-> TRUE]
Pending == [exc |-> "pending", val |-> PyNone]
NoInput == [f |-> "none", x |-> PyNone, ser |-> FALSE]

\* __init__
SessionFresh ==
    /\ hid = HidUnset
    /\ fds = {}
    /\ stop = FALSE
    /\ stats = PyNone
    /\ statsSrc = <<>>
    /\ bg = NoThreads
    /\ pc = "new"
    /\ tries = 0
    /\ retry = 0
    /\ polls = 0
    /\ call = NoCall
    /\ result = Pending
    /\ resultSrc = <<>>
    /\ writes = 0
    /\ resets = <<>>
    /\ ioFailed = TRUE
    /\ allEmpty = TRUE
    /\ openFailed = TRUE

Init ==
    /\ cls \in {"base", "async"}
    /\ raw \in BOOLEAN
    /\ SessionFresh
    /\ cin = NoInput
    /\ cout = Pending

OpenOutcomes == [1..MaxOpens -> BOOLEAN]
Session0 == [hid |-> hid, fds |-> fds, opened |-> 0, ret |-> HidUnset, exc |-> "none"]

\* The history of a finished call is kept until the caller's next call.
ClearGetStats ==
    /\ retry' = 0 /\ polls' = 0 /\ writes' = 0 /\ resets' = <<>>
    /\ ioFailed' = TRUE /\ allEmpty' = TRUE
ClearEnter == tries' = 0 /\ openFailed' = TRUE

\* ------------------------------------------------------------------------
\* __enter__ / __exit__
\* ------------------------------------------------------------------------
EnterCall ==
    /\ pc \in {"new", "ready", "down"}
    /\ pc' = "enter"
    /\ tries' = 0
    /\ openFailed' = TRUE
    /\ call' = [op |-> "enter", block |-> FALSE, done |-> FALSE, empty |-> ~Truthy(stats)]
    /\ ClearGetStats
    /\ UNCHANGED <<cls, raw, hid, fds, stop, stats, statsSrc, bg, result,
                   resultSrc, cvars>>

\* One iteration of the loop of __enter__: _conn(), the test of what it
\* returned, the pause, and after the last iteration the RuntimeError.
EnterAttempt ==
    /\ pc = "enter"
    /\ \E opens \in OpenOutcomes :
        LET r == conn(Session0, opens)
            spawned == IF cls = "async" THEN r.opened ELSE 0
        IN  /\ Cardinality(r.fds) <= MaxFds
            /\ Threads(bg) + spawned <= MaxThreads
            /\ hid' = r.hid
            /\ fds' = r.fds
            /\ bg' = [bg EXCEPT !.top = @ + spawned]
            /\ tries' = tries + 1
            /\ openFailed' = (openFailed /\ r.opened = 0)
            /\ IF r.exc # "none"
               THEN /\ pc' = "down"
                    /\ result' = Raise(r.exc)
                    /\ call' = [call EXCEPT !.done = TRUE]
               ELSE IF r.ret # HidUnset
               THEN /\ pc' = "ready"
                    /\ result' = Ret(Self)
                    /\ call' = [call EXCEPT !.done = TRUE]
               ELSE IF tries + 1 = MAX_RETRIES
               THEN /\ pc' = "down"
                    /\ result' = Raise("RuntimeError")
                    /\ call' = [call EXCEPT !.done = TRUE]
               ELSE UNCHANGED <<pc, result, call>>
    /\ UNCHANGED <<cls, raw, stop, stats, statsSrc, retry, polls, resultSrc,
                   writes, resets, ioFailed, allEmpty, cvars>>

\* ExitCall emptying the cache as it sets the stop flag
ExitCall_ClearsCache ==
    /\ pc = "ready"
    /\ stop' = TRUE
    /\ stats' = PyNone
    /\ statsSrc' = <<>>
    /\ pc' = "exit"
    /\ call' = [op |-> "exit", block |-> FALSE, done |-> FALSE, empty |-> ~Truthy(stats)]
    /\ ClearGetStats
    /\ ClearEnter
    /\ UNCHANGED <<cls, raw, hid, fds, bg, result, resultSrc, cvars>>

\* __exit__ up to its pause: self.stop = True
ExitCall ==
    /\ pc = "ready"
    /\ stop' = TRUE
    /\ pc' = "exit"
    /\ call' = [op |-> "exit", block |-> FALSE, done |-> FALSE, empty |-> ~Truthy(stats)]
    /\ ClearGetStats
    /\ ClearEnter
    /\ UNCHANGED <<cls, raw, hid, fds, stats, statsSrc, bg, result, resultSrc,
                   cvars>>

\* __exit__ after its pause: os.close(self.hid)
ExitClose ==
    /\ pc = "exit"
    /\ pc' = "down"
    /\ call' = [call EXCEPT !.done = TRUE]
    /\ IF hid \in fds
       THEN fds' = fds \ {hid} /\ result' = Ret(PyNone)
       ELSE fds' = fds /\ result' = Raise("OSError")
    /\ UNCHANGED <<cls, raw, hid, stop, stats, statsSrc, bg, tries, retry, polls,
                   resultSrc, writes, resets, ioFailed, allEmpty, openFailed, cvars>>

\* ------------------------------------------------------------------------
\* BaseAxpertInverter.get_stats
\* ------------------------------------------------------------------------
\* What one request cycle meets on the channel: os.write raises, os.read
\* raises, or the reads deliver the stream s.
IoOutcomes ==
    {[k |-> "write_error", s |-> "silent"], [k |-> "read_error", s |-> "silent"]}
        \cup {[k |-> "ok", s |-> st] : st \in Streams}

\* One request cycle on a stream: the response the receive loop accumulates
\* and what the decode makes of it.
OneCycle(rawMode, st) ==
    LET response == read_loop(st, <<>>)
    IN  [response |-> response, res |-> decode_cycle(rawMode, response)]

\* Attempt taking an empty response for an error
Attempt_EmptyIsError(rawMode, io) ==
    IF io.k = "ok" /\ read_loop(StreamOf[io.s], <<>>) # <<>>
    THEN OneCycle(rawMode, StreamOf[io.s])
    ELSE [response |-> <<>>, res |-> Raise("OSError")]

\* What an attempt makes of the channel outcome io: an OSError of os.write
\* or os.read, or the cycle on the stream delivered.
Attempt(rawMode, io) ==
    IF io.k = "ok" THEN OneCycle(rawMode, StreamOf[io.s])
    ELSE [response |-> <<>>, res |-> Raise("OSError")]

\* if retry in [3, 6, 9]
ResetRetries == {3, 6, 9}

GetStatsCall ==
    /\ cls = "base"
    /\ pc = "ready"
    /\ pc' = "get_stats"
    /\ retry' = 0
    /\ writes' = 0
    /\ resets' = <<>>
    /\ ioFailed' = TRUE
    /\ allEmpty' = TRUE
    /\ call' = [op |-> "get_stats", block |-> FALSE, done |-> FALSE, empty |-> ~Truthy(stats)]
    /\ polls' = 0
    /\ ClearEnter
    /\ UNCHANGED <<cls, raw, hid, fds, stop, stats, statsSrc, bg, result,
                   resultSrc, cvars>>

\* One iteration of the retry loop: the request, the receive loop, the
\* decode, and in the except branch the pause and the reset.
GetStatsAttempt ==
    /\ cls = "base"
    /\ pc = "get_stats"
    /\ \E io \in IoOutcomes :
        LET cyc == Attempt(raw, io)
            failed == cyc.res.exc # "none"
            doReset == failed /\ retry \in ResetRetries
        IN  /\ hid \notin fds => io.k = "write_error"
            /\ writes' = writes + 1
            /\ resets' = IF doReset THEN Append(resets, retry) ELSE resets
            /\ ioFailed' = (ioFailed /\ io.k # "ok")
            /\ allEmpty' = (allEmpty /\ io.k = "ok" /\ cyc.response = <<>>)
            /\ IF ~failed /\ Truthy(cyc.res.val)
               THEN /\ pc' = "ready"
                    /\ result' = Ret(cyc.res.val)
                    /\ resultSrc' = cyc.response
                    /\ call' = [call EXCEPT !.done = TRUE]
                    /\ UNCHANGED <<retry, hid, fds>>
               ELSE \E opens \in IF doReset THEN OpenOutcomes ELSE {<<>>} :
                    LET r == IF doReset THEN reset_port(Session0, opens) ELSE Session0
                    IN  /\ Cardinality(r.fds) <= MaxFds
                        /\ hid' = r.hid
                        /\ fds' = r.fds
                        /\ IF r.exc # "none"
                           THEN /\ pc' = "ready"
                                /\ result' = Raise(r.exc)
                                /\ resultSrc' = <<>>
                                /\ call' = [call EXCEPT !.done = TRUE]
                                /\ retry' = retry
                           ELSE IF retry + 1 = MAX_RETRIES
                           THEN /\ pc' = "ready"
                                /\ result' = Ret(PyNone)
                                /\ resultSrc' = <<>>
                                /\ call' = [call EXCEPT !.done = TRUE]
                                /\ retry' = retry + 1
                           ELSE /\ retry' = retry + 1
                                /\ UNCHANGED <<pc, result, resultSrc, call>>
    /\ UNCHANGED <<cls, raw, stop, stats, statsSrc, bg, tries, polls,
                   openFailed, cvars>>

\* ------------------------------------------------------------------------
\* AxpertInverter._read_stats (one thread per successful _conn)
\* ------------------------------------------------------------------------
\* BgTop going on to the next request whatever the stop flag says
BgTop_IgnoresStop ==
    /\ bg.top > 0
    /\ bg' = Move(bg, "top", "write")
    /\ UNCHANGED <<cls, raw, hid, fds, stop, stats, statsSrc, pc, tries, retry,
                   polls, call, result, resultSrc, writes, resets, ioFailed, allEmpty,
                   openFailed, cvars>>

\* while True and not self.stop
BgTop ==
    /\ bg.top > 0
    /\ bg' = Move(bg, "top", IF stop THEN "done" ELSE "write")
    /\ UNCHANGED <<cls, raw, hid, fds, stop, stats, statsSrc, pc, tries, retry,
                   polls, call, result, resultSrc, writes, resets, ioFailed, allEmpty,
                   openFailed, cvars>>

\* os.write(self.hid, ...) and the pause; an error ends the iteration
BgWrite ==
    /\ bg.write > 0
    /\ \E ok \in BOOLEAN :
        /\ ok => hid \in fds
        /\ bg' = Move(bg, "write", IF ok THEN "read" ELSE "top")
    /\ UNCHANGED <<cls, raw, hid, fds, stop, stats, statsSrc, pc, tries, retry,
                   polls, call, result, resultSrc, writes, resets, ioFailed, allEmpty,
                   openFailed, cvars>>

\* BgRead storing whatever the cycle gave, None after a failure included
BgRead_StoresAnyResult ==
    /\ bg.read > 0
    /\ \E io \in IoOutcomes :
        LET cyc == Attempt(raw, io)
        IN  /\ io.k # "write_error"
            /\ hid \notin fds => io.k = "read_error"
            /\ stats' = cyc.res.val
            /\ statsSrc' = cyc.response
    /\ bg' = Move(bg, "read", "top")
    /\ UNCHANGED <<cls, raw, hid, fds, stop, pc, tries, retry, polls, call,
                   result, resultSrc, writes, resets, ioFailed, allEmpty, openFailed, cvars>>

\* the receive loop, the decode and `if stats: self.stats = stats`
BgRead ==
    /\ bg.read > 0
    /\ \E io \in IoOutcomes :
        LET cyc == Attempt(raw, io)
            response == cyc.response
            res == cyc.res
        IN  /\ io.k # "write_error"
            /\ hid \notin fds => io.k = "read_error"
            /\ IF res.exc = "none" /\ Truthy(res.val)
               THEN stats' = res.val /\ statsSrc' = response
               ELSE UNCHANGED <<stats, statsSrc>>
    /\ bg' = Move(bg, "read", "top")
    /\ UNCHANGED <<cls, raw, hid, fds, stop, pc, tries, retry, polls, call,
                   result, resultSrc, writes, resets, ioFailed, allEmpty, openFailed, cvars>>

\* ------------------------------------------------------------------------
\* AxpertInverter.get_stats(block)
\* ------------------------------------------------------------------------
\* GsCall waiting on an empty cache whatever block says
GsCall_AlwaysWaits(block) ==
    /\ cls = "async"
    /\ pc = "ready"
    /\ polls' = 0
    /\ pc' = IF Truthy(stats) THEN "hit" ELSE "wait"
    /\ call' = [op |-> "get_stats", block |-> block, done |-> FALSE,
                empty |-> ~Truthy(stats)]
    /\ tries' = 0
    /\ openFailed' = TRUE
    /\ UNCHANGED <<cls, raw, hid, fds, stop, stats, statsSrc, bg, retry,
                   writes, resets, ioFailed, allEmpty, result, resultSrc, cvars>>

\* the call, up to the first test of self.stats
GsCall(block) ==
    /\ cls = "async"
    /\ pc = "ready"
    /\ polls' = 0
    /\ IF Truthy(stats)
       THEN /\ pc' = "hit"
            /\ call' = [op |-> "get_stats", block |-> block, done |-> FALSE, empty |-> FALSE]
            /\ UNCHANGED <<result, resultSrc>>
       ELSE IF block
       THEN /\ pc' = "wait"
            /\ call' = [op |-> "get_stats", block |-> block, done |-> FALSE, empty |-> TRUE]
            /\ UNCHANGED <<result, resultSrc>>
       ELSE /\ pc' = "ready"
            /\ call' = [op |-> "get_stats", block |-> block, done |-> TRUE, empty |-> TRUE]
            /\ result' = Ret(PyNone)
            /\ resultSrc' = <<>>
    /\ ClearEnter
    /\ UNCHANGED <<cls, raw, hid, fds, stop, stats, statsSrc, bg, retry,
                   writes, resets, ioFailed, allEmpty, cvars>>

\* return self.stats
GsHit ==
    /\ pc = "hit"
    /\ pc' = "ready"
    /\ result' = Ret(stats)
    /\ resultSrc' = statsSrc
    /\ call' = [call EXCEPT !.done = TRUE]
    /\ UNCHANGED <<cls, raw, hid, fds, stop, stats, statsSrc, bg, tries, retry,
                   polls, writes, resets, ioFailed, allEmpty, openFailed, cvars>>

\* one iteration of the waiting loop: sleep(1), then the test of self.stats
GsPoll ==
    /\ pc = "wait"
    /\ polls' = polls + 1
    /\ pc' = IF Truthy(stats) THEN "hit"
             ELSE IF polls + 1 = MAX_RETRIES THEN "expired"
             ELSE "wait"
    /\ UNCHANGED <<cls, raw, hid, fds, stop, stats, statsSrc, bg, tries, retry,
                   call, result, resultSrc, writes, resets, ioFailed, allEmpty, openFailed,
                   cvars>>

\* GsExpire raising without setting the stop flag
GsExpire_NoStop ==
    /\ pc = "expired"
    /\ pc' = "ready"
    /\ result' = Raise("RuntimeError")
    /\ resultSrc' = <<>>
    /\ call' = [call EXCEPT !.done = TRUE]
    /\ UNCHANGED <<cls, raw, hid, fds, stop, stats, statsSrc, bg, tries, retry,
                   polls, writes, resets, ioFailed, allEmpty, openFailed, cvars>>

\* after the loop: self.stop = True; raise RuntimeError
GsExpire ==
    /\ pc = "expired"
    /\ stop' = TRUE
    /\ pc' = "ready"
    /\ result' = Raise("RuntimeError")
    /\ resultSrc' = <<>>
    /\ call' = [call EXCEPT !.done = TRUE]
    /\ UNCHANGED <<cls, raw, hid, fds, stats, statsSrc, bg, tries, retry, polls,
                   writes, resets, ioFailed, allEmpty, openFailed, cvars>>

Next ==
    \/ EnterCall
    \/ EnterAttempt
    \/ ExitCall
    \/ ExitClose
    \/ GetStatsCall
    \/ GetStatsAttempt
    \/ BgTop
    \/ BgWrite
    \/ BgRead
    \/ \E block \in BOOLEAN : GsCall(block)
    \/ GsHit
    \/ GsPoll
    \/ GsExpire

Spec == Init /\ [][Next]_vars

\* The threads are scheduled: a _read_stats thread that can take its next
\* step (the loop test, os.write, the receive loop) eventually takes it.
\* os.write and each os.read return, the descriptor being non-blocking.
SpecFair ==
    /\ Spec
    /\ WF_vars(BgTop)
    /\ WF_vars(BgWrite)
    /\ WF_vars(BgRead)

\* ------------------------------------------------------------------------
\* The codec functions on inputs drawn from bounded sets
\* ------------------------------------------------------------------------
\* longest token given to to_float / to_int / to_str
MaxTokLen == 3
\* most binary digits in a status string given to parse_device_status
MaxStatusLen == 8
\* longest free-form body between the first byte and the tail of a frame
MaxBodyLen == 3

SeqsUpTo(S, n) == UNION {[1..k -> S] : k \in 0..n}

TokChars == {"0", "1", "5", ".", "N", "A"}
TyperInputs ==
    {[f |-> f, x |-> [t |-> t, v |-> tok], ser |-> FALSE] :
        f \in {"to_float", "to_int", "to_str"}, t \in {"bytes", "str"},
        tok \in SeqsUpTo(TokChars, MaxTokLen)}

BitStrings == SeqsUpTo({"0", "1"}, MaxStatusLen)
StatusInputs ==
    {[f |-> "parse_device_status", x |-> x, ser |-> FALSE] :
        x \in {PyStr(b) : b \in BitStrings}
              \cup {PyStr(<<"b", "'">> \o b \o <<"'">>) : b \in BitStrings}
              \cup {PyBytes(b) : b \in {c \in BitStrings : Len(c) \in {0, 3, 8}}}
              \cup {PyNone, PyInt(0), PyInt(5), PyBool(FALSE),
                    PyStr(<<"b", "b", "b", "b", "b", "b", "b", "b">>),
                    PyStr(<<"N", "A">>),
                    PyList(<<>>), PyList([i \in 1..9 |-> "a"])}}

RawChars == {"(", " ", "1", "N"}
Junk5 == <<"x", "x", "x", "c", "c">>
GoodTokens ==
    <<<<"1", ".", "5">>, <<"5", "0">>, <<"1">>, <<"1">>, <<"1", "0">>,
      <<"1", "0">>, <<"5">>, <<"1">>, <<"1">>, <<"1">>, <<"1">>, <<"1">>,
      <<"1">>, <<"1">>, <<"1">>, <<"1">>,
      <<"0", "1", "0", "0", "0", "1", "1", "0">>,
      <<"0">>, <<"0">>, <<"1", "5">>, <<"0">>, <<"9">> >>

\* the first n tokens, separated by single spaces
RECURSIVE JoinTokens(_)
JoinTokens(n) ==
    IF n = 0 THEN <<>>
    ELSE IF n = 1 THEN GoodTokens[1]
    ELSE JoinTokens(n - 1) \o <<" ">> \o GoodTokens[n]

\* the payload of the documented example response
ExamplePayload ==
    <<
      "2", "3", "0", ".", "1", " ", "5", "0", ".", "0", " ", "2", "3", "0", ".", "1",
      " ", "5", "0", ".", "0", " ", "0", "4", "1", "0", " ", "0", "4", "1", "0", " ",
      "0", "3", "0", " ", "4", "1", "0", " ", "5", "2", ".", "5", "0", " ", "0", "1",
      "0", " ", "1", "0", "0", " ", "0", "4", "2", " ", "0", "0", "6", " ", "0", "9",
      "7", ".", "2", " ", "0", "0", ".", "0", "0", " ", "0", "0", "0", " ", "0", "1",
      "0", "0", "0", "1", "1", "0", " ", "0", "0", " ", "0", "0", " ", "0", "7", "2",
      "0", " ", "0", "0" >>
\* the example as it is received: the marker, the payload, five more bytes
ExampleFrame == PyBytes(<<"(">> \o ExamplePayload \o Junk5)

FrameInputs ==
    {[f |-> "status_json_formatter", x |-> x, ser |-> ser] :
        ser \in BOOLEAN,
        x \in {PyBytes(m \o b \o t) :
                    m \in {<<>>, <<"(">>}, b \in SeqsUpTo(RawChars, MaxBodyLen),
                    t \in {<<>>, Junk5}}
              \cup {PyBytes(<<"(">> \o JoinTokens(n) \o Junk5) : n \in 0..Len(GoodTokens)}
              \cup {ExampleFrame, PyNone}}

\* longest stream of bytes handed to the receive loop
MaxStreamLen == 10
\* what the device delivers to one receive loop: data bytes and terminators
StreamChars == {"a", CR}
ReadInputs ==
    {[f |-> "read_loop", x |-> PyBytes(st), ser |-> FALSE] :
        st \in SeqsUpTo(StreamChars, MaxStreamLen)}

\* _stats_req takes no argument
RequestInputs == {[f |-> "stats_req", x |-> PyNone, ser |-> FALSE]}

CodecInit ==
    /\ cls = "base"
    /\ raw = FALSE
    /\ SessionFresh
    /\ cin \in TyperInputs \cup StatusInputs \cup FrameInputs \cup RequestInputs
                \cup ReadInputs
    /\ cout = Pending

ApplyTyper ==
    /\ cout = Pending
    /\ cin.f \in {"to_float", "to_int", "to_str"}
    /\ cout' = CASE cin.f = "to_float" -> to_float(cin.x)
                 [] cin.f = "to_int" -> to_int(cin.x)
                 [] OTHER -> to_str(cin.x)
    /\ UNCHANGED <<svars, cin>>

ApplyParseDeviceStatus ==
    /\ cout = Pending
    /\ cin.f = "parse_device_status"
    /\ cout' = parse_device_status(cin.x)
    /\ UNCHANGED <<svars, cin>>

ApplyStatusJsonFormatter ==
    /\ cout = Pending
    /\ cin.f = "status_json_formatter"
    /\ cout' = status_json_formatter(cin.x, cin.ser)
    /\ UNCHANGED <<svars, cin>>

ApplyStatsReq ==
    /\ cout = Pending
    /\ cin.f = "stats_req"
    /\ cout' = Ret(PyBytes(stats_req))
    /\ UNCHANGED <<svars, cin>>

ApplyReadLoop ==
    /\ cout = Pending
    /\ cin.f = "read_loop"
    /\ cout' = Ret(PyBytes(read_loop(cin.x.v, <<>>)))
    /\ UNCHANGED <<svars, cin>>

CodecNext ==
    \/ ApplyTyper
    \/ ApplyParseDeviceStatus
    \/ ApplyStatusJsonFormatter
    \/ ApplyStatsReq
    \/ ApplyReadLoop

SpecCodec == CodecInit /\ [][CodecNext]_vars

\* ------------------------------------------------------------------------
\* Properties of the sessions (checked under Spec)
\* ------------------------------------------------------------------------
GetStatsDone == call.op = "get_stats" /\ call.done

\* C1: a synchronous get_stats whose every attempt failed in os.write or
\* os.read made exactly 10 attempts and called _reset_port exactly at the
\* attempts the loop numbers 3, 6 and 9.
C1_TenAttemptsResetsAt369 ==
    (cls = "base" /\ GetStatsDone /\ ioFailed)
        => (writes = MAX_RETRIES /\ resets = <<3, 6, 9>>)

BlockingDone ==
    cls = "async" /\ GetStatsDone /\ call.block /\ call.empty

C2_Outcome ==
    BlockingDone =>
        \/ /\ result.exc = "none"
           /\ Truthy(result.val)
           /\ polls \in 1..MAX_RETRIES
        \/ /\ result = Raise("RuntimeError")
           /\ polls = MAX_RETRIES
           /\ stop

\* C2: get_stats(block=True) on an empty cache returns the cached record at
\* the first of its at most 10 checks that finds one; if all 10 checks find
\* the cache empty it raises RuntimeError with the stop flag set, and the
\* stop flag, once set, stays set.
C2_BlockingGetStats ==
    [][/\ stop => stop'
       /\ C2_Outcome'
       /\ (pc = "wait" /\ pc' # "wait") =>
             /\ pc' = "hit" <=> Truthy(stats)
             /\ pc' = "expired" <=> (~Truthy(stats) /\ polls' = MAX_RETRIES)
       /\ (pc = "hit" /\ pc' # "hit") => (Truthy(stats) /\ result' = Ret(stats))
       /\ (pc = "expired" /\ pc' # "expired") =>
             (stop' /\ result' = Raise("RuntimeError"))]_vars

\* A blocking call on an empty cache returned a record after more than one
\* check, in a session whose stop flag an earlier expired call had set.
C2_Witness ==
    BlockingDone /\ result.exc = "none" /\ Truthy(result.val) /\ polls >= 2 /\ stop

\* C3: __enter__ whose every os.open failed ends by raising the connection
\* error (RuntimeError) after its connect attempts; no other error escapes.
C3_ConnectErrorOnly ==
    (call.op = "enter" /\ call.done /\ openFailed)
        => (result = Raise("RuntimeError") /\ tries = MAX_RETRIES)

\* C4: a synchronous get_stats never raises: it returns a result or None.
C4_GetStatsNeverRaises ==
    (cls = "base" /\ GetStatsDone) => result.exc = "none"

SchemaLabels == {STATUS_STRUCTURE[i][1] : i \in 1..Len(STATUS_STRUCTURE)}
PrefixLabels(k) == {STATUS_STRUCTURE[i][1] : i \in 1..k}
Complete(rec) == SchemaLabels \subseteq DOMAIN rec.v
\* the tokens of a response: one more than the spaces left after the slicing
NumTokens(response) ==
    LET sl == Slice1m5(response)
    IN  1 + Cardinality({i \in 1..Len(sl) : sl[i] = " "})
Returned ==
    ~raw /\ GetStatsDone /\ result.exc = "none" /\ result.val.t = "json"

\* The statement of C5 as written: every record cached or returned holds
\* every field of the schema.
C5_AlwaysComplete ==
    /\ (~raw /\ Truthy(stats)) => Complete(stats)
    /\ Returned => Complete(result.val)

PrefixOfSchema(rec, response) ==
    LET n == NumTokens(response)
    IN  DOMAIN rec.v \cap SchemaLabels =
            PrefixLabels(IF n < Len(STATUS_STRUCTURE) THEN n ELSE Len(STATUS_STRUCTURE))

\* C5, amended: a record cached or returned holds the schema fields of the
\* tokens its response carried, in schema order from the first: all of them
\* exactly when the response carried at least as many tokens as the schema
\* has fields, otherwise a proper prefix.
C5_PrefixOfSchema ==
    /\ (~raw /\ Truthy(stats)) => (stats.t = "json" /\ PrefixOfSchema(stats, statsSrc))
    /\ Returned => PrefixOfSchema(result.val, resultSrc)

\* A record of four fields is in the cache and was handed to a caller.
C5_Witness ==
    /\ Returned
    /\ result.val = stats
    /\ DOMAIN stats.v \cap SchemaLabels = PrefixLabels(4)

\* C6: get_stats(block=False) returns at once: the cached record when there
\* is one, None when there is none; it neither waits nor raises, and leaves
\* the stop flag and the cache as they are.
C6_NonBlockingGetStats ==
    [][/\ GsCall(FALSE) =>
             /\ stop' = stop
             /\ stats' = stats
             /\ Truthy(stats) => pc' = "hit"
             /\ ~Truthy(stats) => (pc' = "ready" /\ result' = Ret(PyNone))
       /\ (pc = "hit" /\ pc' # "hit") =>
             /\ pc' = "ready"
             /\ stop' = stop
             /\ stats' = stats
             /\ result' = Ret(stats)
       /\ ~call'.block => pc' \notin {"wait", "expired"}]_vars

\* A non-blocking call found the cache empty and returned None while a
\* _read_stats thread was in a request cycle.
C6_Witness ==
    /\ cls = "async" /\ GetStatsDone /\ ~call.block /\ call.empty
    /\ result = Ret(PyNone)
    /\ bg.write + bg.read > 0
    /\ ~stop

\* ------------------------------------------------------------------------
\* Properties of the codec (checked under SpecCodec)
\* ------------------------------------------------------------------------
Applied(f) == cin.f = f /\ cout.exc # "pending"
ReturnedNone == cout.exc = "none" /\ cout.val.t = "None"

\* what the slicing raw[1:-5] always drops: the first byte and the last five
FrameOverhead == 6

C8_BlankOrNAIsZero ==
    (/\ cin.f \in {"to_float", "to_int"}
     /\ cout.exc # "pending"
     /\ cin.x.t = "bytes"
     /\ cin.x.v \in {<<>>, NA})
        => /\ cout.exc = "none"
           /\ cin.f = "to_float" => cout.val = PyFloat(0, 2)
           /\ cin.f = "to_int" => cout.val = PyInt(0)

\* the binary digits of a status text: as it is, or inside b'...'
StatusBits(x) ==
    IF Len(x.v) >= 3 /\ x.v[1] = "b"
    THEN SubSeq(x.v, 3, Len(x.v) - 1) ELSE x.v
IsStatusValue(x) ==
    /\ x.t = "str"
    /\ Len(x.v) >= 8
    /\ StatusBits(x) # <<>>
    /\ \A i \in 1..Len(StatusBits(x)) : StatusBits(x)[i] \in {"0", "1"}
\* bit k of the status value, read off the text
BitIsSet(b, k) == k < Len(b) /\ b[Len(b) - k] = "1"

\* C9: for a status value, charge_source lists ac_charging exactly when
\* bits 0 and 2 are set and solar_charging exactly when bits 1 and 2 are
\* set: two entries when both match, one when one does, none otherwise.
C9_ChargeSources ==
    (Applied("parse_device_status") /\ IsStatusValue(cin.x)) =>
        LET b == StatusBits(cin.x)
            ac == BitIsSet(b, 0) /\ BitIsSet(b, 2)
            solar == BitIsSet(b, 1) /\ BitIsSet(b, 2)
        IN  /\ cout.exc = "none"
            /\ cout.val.v.charge_source.v =
                  (IF ac THEN <<AC_CHARGING>> ELSE <<>>)
                      \o (IF solar THEN <<SOLAR_CHARGING>> ELSE <<>>)
            /\ Len(cout.val.v.charge_source.v) \in {0, 1, 2}

\* The status 00000111 gave both charge sources.
C9_Witness ==
    /\ Applied("parse_device_status")
    /\ cin.x = PyStr(<<"0", "0", "0", "0", "0", "1", "1", "1">>)
    /\ cout.exc = "none"
    /\ Len(cout.val.v.charge_source.v) = 2

NoFlagSet(d) ==
    /\ d.t = "dict"
    /\ \A k \in DOMAIN d.v :
          /\ d.v[k].t = "bool" => ~d.v[k].v
          /\ d.v[k].t = "list" => d.v[k].v = <<>>

\* C10: parse_device_status, given an input that is not text or is shorter
\* than 8 characters (the empty text included), returns without raising a
\* value in which no flag is set and no charge source is listed.
C10_RejectedInputHasNoFlags ==
    (Applied("parse_device_status") /\ (cin.x.t # "str" \/ Len(cin.x.v) < 8))
        => (cout.exc = "none" /\ NoFlagSet(cout.val))

\* The 7-character text 0000111 was given and no flag came back.
C10_Witness ==
    /\ Applied("parse_device_status")
    /\ cin.x = PyStr(<<"0", "0", "0", "0", "1", "1", "1">>)
    /\ cout = Ret(PyDict(EmptyDict))

Field(name) == cout.val.v[name]
ExampleDecoded ==
    /\ cout.exc = "none"
    /\ Field("grid_volt") = PyFloat(23010, 2)
    /\ Field("ac_watt") = PyInt(410)
    /\ Field("batt_capacity") = PyInt(100)
    /\ Field("raw_status") = PyStrOf(PyBytes(<<"0", "1", "0", "0", "0", "1", "1", "0">>))
    /\ Field("charge_source") = PyList(<<SOLAR_CHARGING>>)
    /\ Field("batt_volt_to_steady") = PyBool(FALSE)
    /\ Field("load_status") = PyBool(FALSE)
    /\ Field("ssc_firmware_updated") = PyBool(FALSE)
    /\ Field("sbu_priority_version") = PyBool(FALSE)
ExampleApplied == Applied("status_json_formatter") /\ cin.x = ExampleFrame

\* The statement of C11 as written: the example decodes to grid_volt 230.10,
\* ac_watt 410, batt_capacity 100 and charge_source [solar_charging], and no
\* other flag of its raw_status is set.
C11_ExampleNoOtherFlag ==
    ExampleApplied =>
        (ExampleDecoded /\ Field("configuration_changed") = PyBool(FALSE))

\* C11, amended: the example decodes to grid_volt 230.10, ac_watt 410,
\* batt_capacity 100 and charge_source [solar_charging]; of the other flags
\* configuration_changed (bit 6 of 01000110) is set and the four others
\* are not.
C11_ExampleDecodes ==
    ExampleApplied =>
        (ExampleDecoded /\ Field("configuration_changed") = PyBool(TRUE))

\* The example was decoded to a mapping with all 21 fields.
C11_Witness ==
    /\ ExampleApplied
    /\ ~cin.ser
    /\ cout.exc = "none"
    /\ Complete(cout.val)

\* The checksum recomputed another way: the remainder of the message, taken
\* as a polynomial over GF(2) and multiplied by x^16, divided by the
\* generator x^16 + x^12 + x^5 + 1.
RECURSIVE BitsOf(_, _)
BitsOf(n, width) ==
    IF width = 0 THEN <<>> ELSE BitsOf(n \div 2, width - 1) \o <<n % 2>>
RECURSIVE Remainder(_, _)
Remainder(bits, reg) ==
    IF reg >= Word16 THEN Remainder(bits, BitXor(reg - Word16, XmodemPoly))
    ELSE IF bits = <<>> THEN reg
    ELSE Remainder(Tail(bits), 2 * reg + Head(bits))
RECURSIVE DivideBytes(_, _)
DivideBytes(data, reg) ==
    IF data = <<>> THEN reg
    ELSE DivideBytes(Tail(data), Remainder(BitsOf(Head(data), 8), reg))
ChecksumByDivision(data) == DivideBytes(data \o <<0, 0>>, 0)

\* C12: _stats_req yields one fixed string of 8 bytes: QPIGS, then the
\* 16-bit checksum of QPIGS with the high byte first, equal to the checksum
\* recomputed by division, then the terminator, which occurs once, last.
C12_StatsReqFrame ==
    Applied("stats_req") =>
        LET r == cout.val.v
            n == Len(encoded_cmd)
        IN  /\ cout.exc = "none"
            /\ r = <<81, 80, 73, 71, 83, 183, 169, 13>>
            /\ Len(r) = n + 3
            /\ SubSeq(r, 1, n) = encoded_cmd
            /\ r[n + 1] \in 0..255 /\ r[n + 2] \in 0..255
            /\ 256 * r[n + 1] + r[n + 2] = ChecksumByDivision(encoded_cmd)
            /\ {i \in 1..Len(r) : r[i] = CRByte} = {Len(r)}

\* The request was built and ends in the terminator.
C12_Witness ==
    /\ Applied("stats_req")
    /\ cout.exc = "none"
    /\ cout.val.v[Len(cout.val.v)] = CRByte

\* ------------------------------------------------------------------------
\* Properties of the background task (checked under Spec)
\* ------------------------------------------------------------------------
\* __exit__ has returned: the handle is released
Closed == call.op = "exit" /\ call.done
Alive(b) == b.top + b.write + b.read

\* C13: once __exit__ has released the handle no _read_stats thread calls
\* os.write or os.read on it, whatever the interleaving.
C13_NoIoAfterRelease ==
    [][Closed => ~(BgWrite \/ BgRead)]_vars

\* C14: a _reset_port called by get_stats ends in a session state, not in
\* an error: the step that makes the reset does not end the call by raising.
C14_ResetEndsInSessionState ==
    [][Len(resets') > Len(resets) => ~(call'.done /\ result'.exc # "none")]_vars

\* ------------------------------------------------------------------------
\* Properties of the receive loop (checked under SpecCodec)
\* ------------------------------------------------------------------------
Terminators(st) == {i \in 1..Len(st) : st[i] = CR}
\* the bytes of st before its first terminator
BeforeTerminator(st) ==
    SubSeq(st, 1, (CHOOSE i \in Terminators(st) : \A j \in Terminators(st) : i <= j) - 1)

\* C15: a receive loop on a stream that holds a terminator returns every
\* byte received before the terminator, those of the terminator's own chunk
\* included.
C15_AllBytesBeforeTerminator ==
    (Applied("read_loop") /\ Terminators(cin.x.v) # {})
        => cout = Ret(PyBytes(BeforeTerminator(cin.x.v)))

\* ------------------------------------------------------------------------
\* Properties of the cache (checked under Spec)
\* ------------------------------------------------------------------------
\* C16: self.stats changes only in the step of a _read_stats thread that
\* ends a request cycle whose result is non-empty, and then it becomes that
\* whole result; a cycle that failed or gave nothing leaves it as it was,
\* and no step of the caller (get_stats included) changes it.
C16_CacheWrittenWhole ==
    [][/\ stats' # stats =>
             /\ cls = "async"
             /\ bg.read > 0
             /\ bg' = Move(bg, "read", "top")
             /\ Truthy(stats')
             /\ \E st \in Streams :
                   LET cyc == OneCycle(raw, StreamOf[st])
                   IN  cyc.res = Ret(stats') /\ statsSrc' = cyc.response
       /\ (pc' # pc \/ call' # call \/ result' # result) => stats' = stats]_vars

\* The cache was replaced after a get_stats had returned the earlier record.
C16_Witness ==
    /\ cls = "async"
    /\ ~raw
    /\ GetStatsDone
    /\ result.exc = "none"
    /\ Truthy(result.val)
    /\ Truthy(stats)
    /\ result.val # stats

\* C17: at most one _read_stats thread of the session is alive at any time.
C17_OneBackgroundTask == Alive(bg) <= 1

\* C18: once the stop flag is set no _read_stats thread starts a request
\* cycle (none passes from the loop test to os.write), the threads in a
\* cycle finish it, and eventually no thread is alive.
C18_CooperativeCancellation ==
    /\ [][stop => bg'.write <= bg.write]_vars
    /\ [][stop => stop']_vars
    /\ stop ~> (Alive(bg) = 0)

\* An exhausted blocking get_stats set the stop flag and the thread that was
\* running has terminated.
C18_Witness ==
    /\ cls = "async"
    /\ GetStatsDone
    /\ result = Raise("RuntimeError")
    /\ stop
    /\ bg.done >= 1
    /\ Alive(bg) = 0

\* C19: a cache that holds a record keeps holding one, and a get_stats
\* called on it, blocking or not, goes straight to `return self.stats`: it
\* makes no poll, returns the cached record, raises nothing and leaves the
\* stop flag as it is.
C19_CacheMonotone ==
    [][/\ Truthy(stats) => Truthy(stats')
       /\ (Truthy(stats) /\ \E block \in BOOLEAN : GsCall(block)) =>
             (pc' = "hit" /\ polls' = 0 /\ stop' = stop)
       /\ (pc = "hit" /\ ~call.empty /\ pc' # "hit") =>
             /\ polls' = 0
             /\ stop' = stop
             /\ Truthy(stats)
             /\ result' = Ret(stats)]_vars

\* A blocking get_stats returned the cached record although the stop flag
\* was set and every thread had terminated.
C19_Witness ==
    /\ cls = "async"
    /\ GetStatsDone
    /\ call.block
    /\ ~call.empty
    /\ result.exc = "none"
    /\ Truthy(result.val)
    /\ stop
    /\ bg.done >= 1
    /\ Alive(bg) = 0

\* ------------------------------------------------------------------------
\* Properties of the synchronous retry loop (checked under Spec)
\* ------------------------------------------------------------------------
\* C20: a synchronous get_stats whose every attempt wrote the request and
\* received an empty response, with no error, ends after exactly 10 writes
\* with no reset and returns None; and no attempt that received an empty
\* response without error is followed by a reset.
C20_EmptyCyclesNoReset ==
    /\ []((cls = "base" /\ GetStatsDone /\ allEmpty) =>
            (writes = MAX_RETRIES /\ resets = <<>> /\ result = Ret(PyNone)))
    /\ [][(pc = "get_stats" /\ allEmpty') => resets' = <<>>]_vars

\* A get_stats met ten empty responses.
C20_Witness ==
    /\ cls = "base"
    /\ GetStatsDone
    /\ allEmpty
    /\ writes = MAX_RETRIES
    /\ retry = MAX_RETRIES
    /\ result = Ret(PyNone)

====
